---- MODULE Spec2Model ----
(***************************************************************************)
(* State-machine model of the mlx-whisper hot service                      *)
(* (stt/mlx_hot_service.py): the HotWhisperService instance, its warmup    *)
(* run from the startup hook, the /health and /transcribe handlers, the    *)
(* language validation and the term normalization.                         *)
(*                                                                         *)
(* Text is a sequence of one-character strings, so that the regular        *)
(* expressions of _normalize_terms are evaluated character by character.   *)
(***************************************************************************)
EXTENDS Naturals, Sequences, FiniteSets, TLC

VARIABLES
    \* ---- the service process ----
    phase,        \* "starting" | "serving" | "exited": the server's lifecycle
    wpc,          \* position of service.warmup on its worker thread
    wres,         \* what warmup's _transcribe call did: "none" | "returned" | "raised"
    model,        \* service.model
    warmed,       \* service.warmed
    startup_ts,   \* service.startup_ts
    files,        \* temporary files that exist on disk
    pc,           \* pc[r]: position of /transcribe request r
    lang,         \* lang[r]: the request's language form field
    calls,        \* calls[r]: invocations of mlx_transcribe made for request r
    result,       \* result[r]: what the worker thread's _transcribe call produced
    resp,         \* resp[r]: the response sent for request r
    healthLog,    \* the /health responses served so far
    \* ---- direct calls of HotWhisperService._transcribe ----
    dlog,         \* the calls made so far: argument, capability behaviour, outcome
    \* ---- direct calls of HotWhisperService._normalize_terms ----
    npc,          \* "idle" | "input" | "once" | "twice"
    parts,        \* the pieces the input text was built from
    text,         \* the argument of the last call
    out           \* what the last call returned

svars == <<phase, wpc, wres, model, warmed, startup_ts, files, pc, lang, calls,
           result, resp, healthLog>>
dvars == <<dlog>>
nvars == <<npc, parts, text, out>>
vars == <<svars, dvars, nvars>>

\* ------------------------------------------------------------------ bounds

\* /transcribe requests the clients send
NumReq == 2
\* direct calls of _transcribe
MaxDirect == 2
\* fragments concatenated into an input text of _normalize_terms
MaxParts == 3
\* tokens of a whitespace-separated input text of _normalize_terms
MaxWords == 3

Req == 1..NumReq

\* ---------------------------------------------------------------- values

\* Python's None; the four-letter string "None" is a different value.
None == "<None>"

DEFAULT_MODEL == "mlx-community/whisper-small-mlx"

\* Sequences over S of length at most n.
SeqUpTo(S, n) == UNION {[1..k -> S] : k \in 0..n}

RECURSIVE Concat(_)
Concat(ss) == IF ss = <<>> THEN <<>> ELSE Head(ss) \o Concat(Tail(ss))

RECURSIVE Join(_, _)
Join(ss, sep) ==
    IF ss = <<>> THEN <<>>
    ELSE IF Len(ss) = 1 THEN Head(ss)
    ELSE Head(ss) \o sep \o Join(Tail(ss), sep)

\* ------------------------------------------------------------ characters

\* str.lower() on the upper-case ASCII letters.
ToLower ==
    ("A" :> "a") @@ ("B" :> "b") @@ ("C" :> "c") @@ ("D" :> "d") @@ ("E" :> "e") @@ ("F" :> "f") @@
    ("G" :> "g") @@ ("H" :> "h") @@ ("I" :> "i") @@ ("J" :> "j") @@ ("K" :> "k") @@ ("L" :> "l") @@
    ("M" :> "m") @@ ("N" :> "n") @@ ("O" :> "o") @@ ("P" :> "p") @@ ("Q" :> "q") @@ ("R" :> "r") @@
    ("S" :> "s") @@ ("T" :> "t") @@ ("U" :> "u") @@ ("V" :> "v") @@ ("W" :> "w") @@ ("X" :> "x") @@
    ("Y" :> "y") @@ ("Z" :> "z")

UpperChars == DOMAIN ToLower
LowerChars == {ToLower[c] : c \in UpperChars}
Digits == {"0", "1", "2", "3", "4", "5", "6", "7", "8", "9"}

\* The regular-expression classes \w and \s.
IsWordChar(c) == c \in UpperChars \cup LowerChars \cup Digits \cup {"_"}
IsSpace(c) == c \in {" ", "\t", "\n", "\r"}

\* re.IGNORECASE: two characters match when they agree after case folding.
Fold(c) == IF c \in UpperChars THEN ToLower[c] ELSE c

\* str.isupper / str.islower: at least one cased character, and none of the
\* other case.
isupper(s) ==
    /\ \E i \in 1..Len(s) : s[i] \in UpperChars
    /\ \A i \in 1..Len(s) : s[i] \notin LowerChars
islower(s) ==
    /\ \E i \in 1..Len(s) : s[i] \in LowerChars
    /\ \A i \in 1..Len(s) : s[i] \notin UpperChars

\* str.strip(): leading and trailing whitespace removed.
RECURSIVE lstrip(_)
lstrip(s) == IF s # <<>> /\ IsSpace(Head(s)) THEN lstrip(Tail(s)) ELSE s
RECURSIVE rstrip(_)
rstrip(s) ==
    IF s # <<>> /\ IsSpace(s[Len(s)]) THEN rstrip(SubSeq(s, 1, Len(s) - 1)) ELSE s
strip(s) == rstrip(lstrip(s))

\* ---------------------------------------------------- regular expressions

\* Pattern elements besides literal characters: \b and \s+.
WB == "\\b"
SPACES == "\\s+"

\* Whether position i of t holds a word character (outside t: no).
WordAt(t, i) == i >= 1 /\ i <= Len(t) /\ IsWordChar(t[i])
\* \b holds between t[i-1] and t[i].
Boundary(t, i) == WordAt(t, i - 1) # WordAt(t, i)

\* Length of the whitespace run of t starting at i.
RECURSIVE SpaceRun(_, _)
SpaceRun(t, i) == IF i <= Len(t) /\ IsSpace(t[i]) THEN 1 + SpaceRun(t, i + 1) ELSE 0

\* The backtracking matcher: pattern elements k.. of pat against t from i.
\* The value is the position after the match, or 0 when there is none.
RECURSIVE MatchFrom(_, _, _, _)
RECURSIVE MatchSpaces(_, _, _, _, _)
MatchFrom(pat, k, t, i) ==
    IF k > Len(pat) THEN i
    ELSE IF pat[k] = WB THEN
        IF Boundary(t, i) THEN MatchFrom(pat, k + 1, t, i) ELSE 0
    ELSE IF pat[k] = SPACES THEN MatchSpaces(pat, k, t, i, SpaceRun(t, i))
    ELSE IF i <= Len(t) /\ Fold(t[i]) = Fold(pat[k]) THEN MatchFrom(pat, k + 1, t, i + 1)
    ELSE 0
\* \s+ is greedy: n whitespace characters first, then fewer.
MatchSpaces(pat, k, t, i, n) ==
    IF n = 0 THEN 0
    ELSE LET e == MatchFrom(pat, k + 1, t, i + n)
         IN  IF e > 0 THEN e ELSE MatchSpaces(pat, k, t, i, n - 1)

\* ------------------------------------------------------- _normalize_terms

S_Subsider == <<"S", "u", "b", "s", "i", "d", "e", "r">>
S_Agent == <<"A", "g", "e", "n", "t">>
S_SubsiderAgent == S_Subsider \o S_Agent
S_subagent == <<"s", "u", "b", "a", "g", "e", "n", "t">>
S_CLA == <<"C", "L", "A">>
S_Fallback == <<"F", "a", "l", "l", "b", "a", "c", "k">>
S_fallback == <<"f", "a", "l", "l", "b", "a", "c", "k">>
S_Open == <<"O", "p", "e", "n">>
S_claw == <<"c", "l", "a", "w">>
S_OpenClaw == <<"O", "p", "e", "n", "C", "l", "a", "w">>
S_CLI == <<"C", "L", "I">>
S_cli == <<"c", "l", "i">>
S_Cli == <<"C", "l", "i">>

\* A plausible slip: the irregular-casing fallback upper-cases the token
\* instead of returning the canonical CLI.
_case_aware_cli_upper(token) ==
    IF isupper(token) THEN S_CLI
    ELSE IF islower(token) THEN S_cli
    ELSE IF isupper(<<token[1]>>) /\ islower(SubSeq(token, 2, Len(token))) THEN S_Cli
    ELSE [i \in 1..Len(token) |->
             IF token[i] \in LowerChars
             THEN CHOOSE u \in UpperChars : ToLower[u] = token[i]
             ELSE token[i]]

_case_aware_cli(token) ==
    IF isupper(token) THEN S_CLI
    ELSE IF islower(token) THEN S_cli
    ELSE IF isupper(<<token[1]>>) /\ islower(SubSeq(token, 2, Len(token))) THEN S_Cli
    ELSE S_CLI

\* The patterns, flags=re.IGNORECASE on each.
P_SubsiderAgent == <<WB>> \o S_SubsiderAgent \o <<WB>>
P_Subsider_Agent == <<WB>> \o S_Subsider \o <<SPACES>> \o S_Agent \o <<WB>>
\* A plausible slip: the abbreviation pattern without its closing \b.
P_CLA_unanchored == <<WB>> \o S_CLA
P_CLA == <<WB>> \o S_CLA \o <<WB>>
P_Fallback == <<WB>> \o S_Fallback \o <<WB>>
P_Open_claw == <<WB>> \o S_Open \o <<SPACES>> \o S_claw \o <<WB>>

\* The five substitutions, in the order they are applied. fn marks the rule
\* whose replacement is the function _case_aware_cli.
Rules ==
    << [pattern |-> P_SubsiderAgent, repl |-> S_subagent, fn |-> FALSE],
       [pattern |-> P_Subsider_Agent, repl |-> S_subagent, fn |-> FALSE],
       [pattern |-> P_CLA, repl |-> <<>>, fn |-> TRUE],
       [pattern |-> P_Fallback, repl |-> S_fallback, fn |-> FALSE],
       [pattern |-> P_Open_claw, repl |-> S_OpenClaw, fn |-> FALSE] >>

\* re.sub(pattern, repl, t, flags=re.IGNORECASE): the leftmost matches, none
\* overlapping, each replaced; scanning goes on after the match.
RECURSIVE SubFrom(_, _, _)
SubFrom(rule, t, i) ==
    IF i > Len(t) THEN <<>>
    ELSE LET e == MatchFrom(rule.pattern, 1, t, i)
         IN  IF e > i
             THEN (IF rule.fn THEN _case_aware_cli(SubSeq(t, i, e - 1)) ELSE rule.repl)
                      \o SubFrom(rule, t, e)
             ELSE <<t[i]>> \o SubFrom(rule, t, i + 1)
re_sub(rule, t) == SubFrom(rule, t, 1)

_normalize_terms(t) ==
    LET out1 == re_sub(Rules[1], t)
        out2 == re_sub(Rules[2], out1)
        out3 == re_sub(Rules[3], out2)
        out4 == re_sub(Rules[4], out3)
        out5 == re_sub(Rules[5], out4)
    IN  out5

\* ----------------------------------------------------------- _language_arg

\* The outcome of _language_arg: the value it returns, or the HTTPException
\* it raises.
_language_arg_passthrough(language) ==
    IF language \in {None, "", "auto"}
    THEN [raised |-> FALSE, value |-> None, status_code |-> 0]
    ELSE [raised |-> FALSE, value |-> language, status_code |-> 0]

_language_arg(language) ==
    IF language \in {None, "", "auto"}
    THEN [raised |-> FALSE, value |-> None, status_code |-> 0]
    ELSE IF language \notin {"zh", "en"}
    THEN [raised |-> TRUE, value |-> None, status_code |-> 400]
    ELSE [raised |-> FALSE, value |-> language, status_code |-> 0]

\* What mlx_transcribe does when it is invoked: it raises, or returns a
\* transcript.
CapTexts == { <<>>, <<" ">> \o S_CLA \o <<" ">> }
CapOutcomes ==
    {[raises |-> TRUE, text |-> <<>>]} \cup {[raises |-> FALSE, text |-> t] : t \in CapTexts}

\* _transcribe: the arguments of mlx_transcribe are evaluated first, so an
\* exception of _language_arg leaves mlx_transcribe uninvoked. invoked counts
\* the invocations of mlx_transcribe, language is the hint it was given.
_transcribe(language, cap) ==
    LET arg == _language_arg(language)
    IN  IF arg.raised
        THEN [outcome |-> "http_exception", status_code |-> arg.status_code,
              invoked |-> 0, language |-> None, text |-> <<>>]
        ELSE IF cap.raises
        THEN [outcome |-> "raised", status_code |-> 500,
              invoked |-> 1, language |-> arg.value, text |-> <<>>]
        ELSE [outcome |-> "returned", status_code |-> 0,
              invoked |-> 1, language |-> arg.value, text |-> cap.text]

\* ------------------------------------------------------------ the service

APP_TITLE == "mlx-whisper-hot-service"

\* The language values a client may put in the form; the handler's parameter
\* is typed Literal["auto", "zh", "en"], with "auto" the default.
FormLangs == {"auto", "zh", "en", "fr"}
LiteralLangs == {"auto", "zh", "en"}

\* The temporary file of warmup; the temporary file of request r is named r.
WarmupFile == "warmup.wav"

NoResult ==
    [outcome |-> "none", status_code |-> 0, invoked |-> 0, language |-> None, text |-> <<>>]
NoResp ==
    [status_code |-> 0, text |-> <<>>, language |-> None, requested_language |-> None,
     model |-> None]
ErrorResp(code, requested) ==
    [status_code |-> code, text |-> <<>>, language |-> None,
     requested_language |-> requested, model |-> None]

\* HotWhisperService.__init__, and the module-level state around it.
ServiceInit ==
    /\ phase = "starting"
    /\ wpc = "start"
    /\ wres = "none"
    /\ model = DEFAULT_MODEL
    /\ warmed = FALSE
    /\ startup_ts = "t0"
    /\ files = {}
    /\ pc = [r \in Req |-> "new"]
    /\ lang = [r \in Req |-> None]
    /\ calls = [r \in Req |-> 0]
    /\ result = [r \in Req |-> NoResult]
    /\ resp = [r \in Req |-> NoResp]
    /\ healthLog = {}

DirectIdle == dlog = <<>>
NormIdle == npc = "idle" /\ parts = <<>> /\ text = <<>> /\ out = <<>>

\* ---- warmup, run by startup_event on a worker thread ----

\* with tempfile.NamedTemporaryFile(suffix=".wav", delete=False)
warmup_mktemp ==
    /\ wpc = "start"
    /\ files' = files \cup {WarmupFile}
    /\ wpc' = "write_wav"
    /\ UNCHANGED <<phase, wres, model, warmed, startup_ts, pc, lang, calls, result, resp,
                   healthLog, dvars, nvars>>

\* Writing the silent sample; a failure goes to the finally clause.
warmup_write_wav ==
    /\ wpc = "write_wav"
    /\ \E ok \in BOOLEAN : wpc' = IF ok THEN "transcribe" ELSE "finally_exc"
    /\ UNCHANGED <<phase, wres, model, warmed, startup_ts, files, pc, lang, calls, result,
                   resp, healthLog, dvars, nvars>>

\* A plausible slip: the flag set whatever the transcription call did.
warmed_after_always(w, res) == TRUE

\* self._transcribe(...); self.warmed = True
warmed_after(w, res) == IF res.outcome = "returned" THEN TRUE ELSE w

warmup_transcribe ==
    /\ wpc = "transcribe"
    /\ \E cap \in CapOutcomes :
           LET res == _transcribe("auto", cap)
           IN  /\ wres' = res.outcome
               /\ warmed' = warmed_after(warmed, res)
               /\ wpc' = IF res.outcome = "returned" THEN "finally_ok" ELSE "finally_exc"
    /\ UNCHANGED <<phase, model, startup_ts, files, pc, lang, calls, result, resp,
                   healthLog, dvars, nvars>>

\* finally: warmup_path.unlink(missing_ok=True); a pending exception goes on.
warmup_finally ==
    /\ wpc \in {"finally_ok", "finally_exc"}
    /\ files' = files \ {WarmupFile}
    /\ wpc' = IF wpc = "finally_ok" THEN "returned" ELSE "raised"
    /\ UNCHANGED <<phase, wres, model, warmed, startup_ts, pc, lang, calls, result, resp,
                   healthLog, dvars, nvars>>

\* ---- startup_event ----

\* A plausible slip: warmup started and not awaited.
WarmupNotAwaited == TRUE

\* await asyncio.to_thread(service.warmup): the hook goes on when the thread
\* has finished.
WarmupAwaited == wpc \in {"returned", "raised"}

\* A plausible slip: the exception of warmup swallowed by the hook.
StartupSwallows == FALSE

\* The await re-raises what warmup raised; nothing in the hook catches it.
StartupRaises == wpc = "raised"

\* The hook returned: the server starts to serve requests.
startup_complete ==
    /\ phase = "starting"
    /\ WarmupAwaited
    /\ ~StartupRaises
    /\ phase' = "serving"
    /\ UNCHANGED <<wpc, wres, model, warmed, startup_ts, files, pc, lang, calls, result,
                   resp, healthLog, dvars, nvars>>

\* The hook raised: the application's startup fails and the server exits
\* without having served a request.
startup_failed ==
    /\ phase = "starting"
    /\ WarmupAwaited
    /\ StartupRaises
    /\ phase' = "exited"
    /\ UNCHANGED <<wpc, wres, model, warmed, startup_ts, files, pc, lang, calls, result,
                   resp, healthLog, dvars, nvars>>

\* ---- the handlers ----

InFlight == {r \in Req : pc[r] = "running"}

\* A plausible slip: service._transcribe called on the event loop itself.
EventLoopBlockedByCall == InFlight = {}

\* The blocking call runs on a worker thread (asyncio.to_thread), so the
\* event loop is free whatever the requests in flight.
EventLoopFree == TRUE

\* GET /health. The log keeps each distinct response with the number of
\* transcription calls that were running when it was served.
health ==
    /\ phase = "serving"
    /\ EventLoopFree
    /\ healthLog' = healthLog \cup
           {[ok |-> TRUE, service |-> APP_TITLE, model |-> model, warmed |-> warmed,
             inflight |-> Cardinality(InFlight)]}
    /\ UNCHANGED <<phase, wpc, wres, model, warmed, startup_ts, files, pc, lang, calls,
                   result, resp, dvars, nvars>>

\* POST /transcribe arrives. A language outside the Literal is refused by the
\* form validation before the handler runs; otherwise the handler creates
\* its temporary file and awaits file.read().
transcribe_arrive(r) ==
    /\ phase = "serving"
    /\ EventLoopFree
    /\ pc[r] = "new"
    /\ \E l \in FormLangs :
           IF l \notin LiteralLangs
           THEN /\ pc' = [pc EXCEPT ![r] = "done"]
                /\ resp' = [resp EXCEPT ![r] = ErrorResp(422, l)]
                /\ UNCHANGED <<files, lang>>
           ELSE /\ pc' = [pc EXCEPT ![r] = "reading"]
                /\ lang' = [lang EXCEPT ![r] = l]
                /\ files' = files \cup {r}
                /\ UNCHANGED resp
    /\ UNCHANGED <<phase, wpc, wres, model, warmed, startup_ts, calls, result, healthLog,
                   dvars, nvars>>

IoOutcomes == {"ok", "read_raises", "write_raises"}

\* file.read() has finished: content is written and the with block left
\* (the file is closed, and kept: delete=False). An exception of read() or
\* write() leaves the handler here, before the try statement is entered.
\* Otherwise the try block starts and the call is handed to a worker thread.
transcribe_read(r) ==
    /\ phase = "serving"
    /\ EventLoopFree
    /\ pc[r] = "reading"
    /\ \E io \in IoOutcomes :
           IF io = "ok"
           THEN /\ pc' = [pc EXCEPT ![r] = "running"]
                /\ UNCHANGED resp
           ELSE /\ pc' = [pc EXCEPT ![r] = "done"]
                /\ resp' = [resp EXCEPT ![r] = ErrorResp(500, lang[r])]
    /\ UNCHANGED <<phase, wpc, wres, model, warmed, startup_ts, files, lang, calls, result,
                   healthLog, dvars, nvars>>

\* The worker thread's service._transcribe(str(tmp_path), language) ends.
worker_return(r) ==
    /\ pc[r] = "running"
    /\ \E cap \in CapOutcomes :
           LET res == _transcribe(lang[r], cap)
           IN  /\ result' = [result EXCEPT ![r] = res]
               /\ calls' = [calls EXCEPT ![r] = @ + res.invoked]
    /\ pc' = [pc EXCEPT ![r] = "worker_done"]
    /\ UNCHANGED <<phase, wpc, wres, model, warmed, startup_ts, files, lang, resp,
                   healthLog, dvars, nvars>>

\* A plausible slip: the call made again when it raised.
pc_after_call_retry(res) == IF res.outcome = "raised" THEN "running" ELSE "done"

\* Where the handler is after the awaited call: it has returned or raised,
\* and the handler ends either way.
pc_after_call(res) == "done"

\* The handler resumes: the response is built from the result (or the
\* exception goes on to the caller), and the finally clause unlinks the file.
transcribe_resume(r) ==
    /\ phase = "serving"
    /\ EventLoopFree
    /\ pc[r] = "worker_done"
    /\ pc' = [pc EXCEPT ![r] = pc_after_call(result[r])]
    /\ resp' = [resp EXCEPT ![r] =
           IF result[r].outcome = "returned"
           THEN [status_code |-> 200,
                 text |-> _normalize_terms(strip(result[r].text)),
                 language |-> result[r].language,
                 requested_language |-> lang[r],
                 model |-> model]
           ELSE ErrorResp(result[r].status_code, lang[r])]
    /\ files' = files \ {r}
    /\ UNCHANGED <<phase, wpc, wres, model, warmed, startup_ts, lang, calls, result,
                   healthLog, dvars, nvars>>

Init == ServiceInit /\ DirectIdle /\ NormIdle

Next ==
    \/ warmup_mktemp
    \/ warmup_write_wav
    \/ warmup_transcribe
    \/ warmup_finally
    \/ startup_complete
    \/ startup_failed
    \/ health
    \/ \E r \in Req : transcribe_arrive(r)
    \/ \E r \in Req : transcribe_read(r)
    \/ \E r \in Req : worker_return(r)
    \/ \E r \in Req : transcribe_resume(r)

Spec == Init /\ [][Next]_vars

\* ------------------------------------------- direct calls of _transcribe

\* Language arguments of a direct call: the values the function names, and
\* others (another language, other casings, the string "None", padding).
LangInputs == {None, "", "auto", "zh", "en", "fr", "AUTO", "ZH", "None", "en "}

direct_transcribe ==
    /\ Len(dlog) < MaxDirect
    /\ \E l \in LangInputs, cap \in CapOutcomes :
           dlog' = Append(dlog, [language |-> l, cap |-> cap, arg |-> _language_arg(l),
                                 res |-> _transcribe(l, cap)])
    /\ UNCHANGED <<svars, nvars>>

InitLang == ServiceInit /\ DirectIdle /\ NormIdle
NextLang == direct_transcribe
SpecLang == InitLang /\ [][NextLang]_vars

\* -------------------------------------- direct calls of _normalize_terms

S_agent == <<"a", "g", "e", "n", "t">>
S_sub == <<"s", "u", "b">>
S_cLa == <<"c", "L", "a">>
S_Cla == <<"C", "l", "a">>
S_FallBack == <<"F", "a", "l", "l", "B", "a", "c", "k">>
S_CLASS == <<"C", "L", "A", "S", "S">>
S_CLAUDE == <<"C", "L", "A", "U", "D", "E">>

\* Pieces an input text is concatenated from: the words of the patterns in
\* several casings, the replacements, and the separators between them.
PartSet ==
    { S_Subsider, S_agent, S_sub, S_CLA, S_cLa, S_Cla, S_CLI, S_FallBack, S_Open, S_claw,
      S_OpenClaw, <<" ">>, <<" ", "\t">>, <<"-">>, <<"_">>, <<"s">> }

\* The casings of CLA, and the two longer words.
ClaCasings == {<<a, b, c>> : a \in {"C", "c"}, b \in {"L", "l"}, c \in {"A", "a"}}
AbbrevTokens == ClaCasings \cup {S_CLASS, S_CLAUDE}

\* HotWhisperService._normalize_terms(text)
normalize_first ==
    /\ npc = "input"
    /\ out' = _normalize_terms(text)
    /\ npc' = "once"
    /\ UNCHANGED <<svars, dvars, parts, text>>

\* ... and again, on what it returned.
normalize_second ==
    /\ npc = "once"
    /\ text' = out
    /\ out' = _normalize_terms(out)
    /\ npc' = "twice"
    /\ UNCHANGED <<svars, dvars, parts>>

NextNorm == normalize_first \/ normalize_second

\* Inputs concatenated from pieces.
InitNorm ==
    /\ ServiceInit /\ DirectIdle
    /\ npc = "input"
    /\ parts \in SeqUpTo(PartSet, MaxParts)
    /\ text = Concat(parts)
    /\ out = <<>>
SpecNorm == InitNorm /\ [][NextNorm]_vars

\* Inputs of tokens separated by one space.
InitWords ==
    /\ ServiceInit /\ DirectIdle
    /\ npc = "input"
    /\ parts \in SeqUpTo(AbbrevTokens, MaxWords) \ {<<>>}
    /\ text = Join(parts, <<" ">>)
    /\ out = <<>>
SpecWords == InitWords /\ [][NextNorm]_vars

\* ============================================================== claims

\* C1: once a /transcribe request has finished, on whatever exit path, the
\* temporary file created for it no longer exists.
C1_TempFileGone == \A r \in Req : pc[r] = "done" => r \notin files

\* C2: when the transcription call made by warmup fails, the process is not
\* aborted: it goes on to serve requests.
C2_WarmupFailureNotFatal == wres = "raised" => phase # "exited"

\* A handler (health, transcribe) has taken a step.
HandlerStep == healthLog' # healthLog \/ pc' # pc \/ result' # result \/ resp' # resp

\* C3: the warmed flag starts false and is true only after warmup's
\* transcription call has returned; it is set by that step of warmup alone
\* and never set back; no handler step changes the flag, the model identifier
\* or the startup timestamp.
C3_WarmedMonotonic ==
    /\ [](warmed => wres = "returned")
    /\ [][ /\ (warmed => warmed')
           /\ (warmed' # warmed => wpc = "transcribe" /\ wres' = "returned")
           /\ (HandlerStep => UNCHANGED <<warmed, model, startup_ts>>)
           /\ UNCHANGED <<model, startup_ts>> ]_vars

\* C3's case: the flag is set, and stays set through /health and through a
\* successful and a failing /transcribe.
C3_Witness ==
    /\ warmed
    /\ healthLog # {}
    /\ \E r, q \in Req : /\ pc[r] = "done" /\ resp[r].status_code = 200
                         /\ pc[q] = "done" /\ resp[q].status_code = 500

C5_NoGating ==
    (phase # "exited" /\ wpc = "transcribe") =>
        /\ ENABLED health
        /\ \A r \in Req : pc[r] = "new" => ENABLED transcribe_arrive(r)

\* C5, amended: the startup hook awaits warmup, so a request is served only
\* after warmup has completed successfully; no /health response reports
\* warmed false and no /transcribe is handled before that.
C5_GatedOnWarmup ==
    (healthLog # {} \/ \E r \in Req : pc[r] # "new") =>
        /\ wpc = "returned"
        /\ warmed
        /\ \A h \in healthLog : h.warmed

\* C5's case: after warmup, /health has been served and a /transcribe handled.
C5_Witness ==
    /\ wpc = "returned"
    /\ \E h \in healthLog : h.warmed
    /\ \E r \in Req : pc[r] = "done" /\ resp[r].status_code = 200

\* An entry of the call log, by the class of its language argument.
C6_Entry(e) ==
    /\ e.language \in {None, "", "auto"} =>
           /\ ~e.arg.raised /\ e.arg.value = None
           /\ e.res.invoked = 1 /\ e.res.language = None
    /\ e.language \in {"zh", "en"} =>
           /\ ~e.arg.raised /\ e.arg.value = e.language
           /\ e.res.invoked = 1 /\ e.res.language = e.language
    /\ e.language \notin {None, "", "auto", "zh", "en"} =>
           /\ e.arg.raised /\ e.arg.status_code = 400
           /\ e.res.outcome = "http_exception" /\ e.res.status_code = 400
           /\ e.res.invoked = 0

\* C6: None, "" and "auto" map to the auto-detect sentinel None, "zh" and
\* "en" are returned unchanged, any other value fails with HTTP 400, and a
\* call whose validation fails never invokes the transcription capability.
C6_LanguageValidation == \A i \in 1..Len(dlog) : C6_Entry(dlog[i])

\* C6's case: a call with "fr" was refused and a call with "" went through.
C6_Witness ==
    /\ \E i \in 1..Len(dlog) : dlog[i].language = "fr" /\ dlog[i].res.invoked = 0
    /\ \E i \in 1..Len(dlog) : dlog[i].language = "" /\ dlog[i].res.outcome = "returned"

\* C7: normalization is idempotent: a second pass returns its argument.
C7_Idempotent == npc = "twice" => out = text

\* C7's case: the first pass rewrote the input and the second pass has run.
C7_Witness == npc = "twice" /\ text # Concat(parts) /\ Len(parts) >= 3

\* The case table of the abbreviation rule, by token.
C8_Table(tok) ==
    IF tok \in {S_CLASS, S_CLAUDE} THEN tok
    ELSE IF tok = <<"C", "L", "A">> THEN <<"C", "L", "I">>
    ELSE IF tok = <<"c", "l", "a">> THEN <<"c", "l", "i">>
    ELSE IF tok = <<"C", "l", "a">> THEN <<"C", "l", "i">>
    ELSE <<"C", "L", "I">>

\* C8: in a space-separated input of the tokens CLASS, CLAUDE and casings of
\* CLA, each casing of CLA is rewritten by the case table and CLASS and
\* CLAUDE stay as they are, every token at its position.
C8_AbbreviationRule ==
    npc = "once" =>
        out = Join([i \in 1..Len(parts) |-> C8_Table(parts[i])], <<" ">>)

\* C8's case: the two longer words around an irregular casing of CLA.
C8_Witness ==
    /\ npc = "once"
    /\ parts = <<S_CLASS, <<"c", "L", "a">>, S_CLAUDE>>
    /\ out = S_CLASS \o <<" ", "C", "L", "I", " ">> \o S_CLAUDE

\* C9: a /transcribe request invokes the capability at most once; when the
\* capability raises, the request ends with a server error, and the step in
\* which it raises touches neither the service state nor another request.
C9_AtMostOnce ==
    /\ [](\A r \in Req :
              /\ calls[r] <= 1
              /\ (pc[r] = "done" /\ result[r].outcome = "raised") =>
                     resp[r].status_code = 500)
    /\ [][\A r \in Req :
              (result'[r].outcome = "raised" /\ result[r].outcome # "raised") =>
                  /\ UNCHANGED <<phase, warmed, model, startup_ts>>
                  /\ \A q \in Req \ {r} :
                         /\ pc'[q] = pc[q] /\ result'[q] = result[q]
                         /\ resp'[q] = resp[q] /\ calls'[q] = calls[q]]_vars

\* C9's case: one request failed in the capability, after one invocation,
\* and another request succeeded.
C9_Witness ==
    \E r, q \in Req :
        /\ pc[r] = "done" /\ result[r].outcome = "raised" /\ calls[r] = 1
        /\ resp[r].status_code = 500
        /\ pc[q] = "done" /\ resp[q].status_code = 200

\* C10: once startup has completed, the flag is set and every /health
\* response reports ok and warmed.
C10_HealthWarmedAfterStartup ==
    phase = "serving" => /\ warmed
                         /\ \A h \in healthLog : h.ok /\ h.warmed

\* C10's case: startup completed and /health was served.
C10_Witness == phase = "serving" /\ healthLog # {}

====
